---- MODULE Spec2Model ----
(***************************************************************************)
(* State-machine model of fontgl's src/main.c: the two GLFW callbacks, the *)
(* glyph rasterizer get_character and main (window setup, shader build,    *)
(* quad construction, frame loop, shutdown).  main is one sequential       *)
(* process; pc is the statement it is about to execute.  Library calls     *)
(* whose result the code tests (glfwInit, FT_New_Face, ...) take their     *)
(* outcome nondeterministically.  A call the code makes on an invalid      *)
(* handle is undefined behaviour and is modelled as a choice between a     *)
(* crash and the call returning.                                           *)
(***************************************************************************)
EXTENDS Integers, Sequences, FiniteSets

\* ------------------------------------------------------------------ bounds
MaxFrames == 2          \* frames drawn before the model stops exploring
MaxEvents == 2          \* events drained by one glfwPollEvents call

\* ------------------------------------------------------- program constants
GLFW_KEY_ESCAPE == 256
GLFW_PRESS      == 1
scale_den       == 10   \* float scale = 0.1f, kept as the fraction 1/scale_den
TEXTURE         == 1    \* the name glGenTextures hands out

\* events GLFW can deliver: escape or another key (65 is GLFW_KEY_A), with
\* action release (0), press or repeat (2)
Keys    == {GLFW_KEY_ESCAPE, 65}
Actions == {0, GLFW_PRESS, 2}

\* glyph bitmaps FT_Load_Char can leave in the slot: <<width, rows, left, top, advance.x>>
GlyphSlots == { <<12, 18, 1, 18, 704>>, <<13, 14, 0, 14, 832>> }
\* the slot of a face whose glyph load failed (ft_glyphslot_clear)
ClearedSlot == <<0, 0, 0, 0, 0>>
\* what a read through an uninitialised FT_Face can yield
GarbageSlots == { <<12, 18, 1, 18, 704>>, <<3, 0, 0, 0, 7>> }

\* framebuffer sizes glfwGetFramebufferSize can report for the 640x480 window
\* (as is, doubled by display scaling, or 0x0 while the window is iconified)
FramebufferSizes == { <<640, 480>>, <<1280, 960>>, <<0, 0>> }

\* colours in tenths: <<r, g, b, a>>
GL_DEFAULT_CLEAR_COLOR == <<0, 0, 0, 0>>
BACKGROUND_COLOR       == <<2, 4, 2, 10>>

VARIABLES
    pc,               \* statement main is about to execute
    errorCallbackSet, \* glfwSetErrorCallback(error_callback) done
    glfwInitialized,  \* glfwInit succeeded
    window,           \* GLFWwindow* : 0 is NULL
    keyCallbackSet,   \* key_callback installed on the window
    contextCurrent,   \* a GL context is current
    glLoaded,         \* GLEW resolved the GL entry points
    closeFlag,        \* the window's should-close flag
    errCbAt,          \* statements during which error_callback has run
    keyCbAt,          \* statements during which key_callback has run
    lastEvent,        \* last event delivered by glfwPollEvents
    polled,           \* events delivered by the current glfwPollEvents call
    reported,         \* diagnostics printed (perror / fprintf(stderr))
    shader,           \* [vs, fs, link : BOOLEAN] compile / link status
    glprog,           \* GL program state: [handle, attached, linked, inUse]
    locations,        \* <<vertex_location, mvp_location>> ; <<>> before query
    ft,               \* FT_Library : "uninit" | "ok" | "garbage" | "done"
    face,             \* FT_Face    : "uninit" | "ok" | "garbage" | "done"
    slot,             \* face->glyph contents
    ftFailed,         \* font steps that returned an error
    gcLog,            \* operations performed by get_character, in order
    glTex,            \* textures: [gen, local, bound, image, deleted]
    character,        \* the calloc'ed character_T, <<>> before get_character
    quad,             \* main's texture, xpos, ypos, w, h, vertices locals
    frame,            \* what the current frame did: [fb, viewport, cleared, mvp, ...]
    gl_clearColor,    \* current GL clear colour
    draws,            \* glDrawArrays calls
    swaps,            \* glfwSwapBuffers calls
    drawsAfterClose,  \* glDrawArrays / glfwSwapBuffers calls made with closeFlag set
    shutdownLog,      \* shutdown calls in order
    exitStatus        \* main's return value, -1 while it has not returned

vars == << pc, errorCallbackSet, glfwInitialized, window, keyCallbackSet,
           contextCurrent, glLoaded, closeFlag, errCbAt, keyCbAt, lastEvent,
           polled, reported, shader, glprog, locations, ft, face, slot,
           ftFailed, gcLog, glTex, character, quad, frame, gl_clearColor,
           draws, swaps, drawsAfterClose, shutdownLog, exitStatus >>

glfwVars   == << errorCallbackSet, glfwInitialized, window, keyCallbackSet,
                 contextCurrent, glLoaded >>
eventVars  == << closeFlag, keyCbAt, lastEvent, polled >>
shaderVars == << shader, glprog, locations >>
fontVars   == << ft, face, slot, ftFailed, gcLog, glTex, character >>
frameVars  == << quad, frame, gl_clearColor, draws, swaps, drawsAfterClose >>
exitVars   == << shutdownLog, exitStatus >>

NoEvent == [kind |-> "none", key |-> 0, action |-> 0]

Init ==
    /\ pc = "glfwSetErrorCallback"
    /\ errorCallbackSet = FALSE
    /\ glfwInitialized = FALSE
    /\ window = 0
    /\ keyCallbackSet = FALSE
    /\ contextCurrent = FALSE
    /\ glLoaded = FALSE
    /\ closeFlag = FALSE
    /\ errCbAt = {}
    /\ keyCbAt = {}
    /\ lastEvent = NoEvent
    /\ polled = 0
    /\ reported = {}
    /\ shader = [vs |-> FALSE, fs |-> FALSE, link |-> FALSE]
    /\ glprog = [handle |-> 0, attached |-> {}, linked |-> FALSE, inUse |-> 0]
    /\ locations = <<>>
    /\ ft = "uninit"
    /\ face = "uninit"
    /\ slot = ClearedSlot
    /\ ftFailed = {}
    /\ gcLog = <<>>
    /\ glTex = [gen |-> {}, local |-> 0, bound |-> 0, image |-> [t \in {0, TEXTURE} |-> <<>>],
                deleted |-> {}]
    /\ character = <<>>
    /\ quad = <<>>
    /\ frame = [fb |-> <<>>, viewport |-> <<>>, cleared |-> <<>>, mvp |-> <<>>,
                program |-> 0, texture |-> 0, buffer |-> <<>>, count |-> 0]
    /\ gl_clearColor = GL_DEFAULT_CLEAR_COLOR
    /\ draws = 0
    /\ swaps = 0
    /\ drawsAfterClose = 0
    /\ shutdownLog = <<>>
    /\ exitStatus = -1

\* ---------------------------------------------------------------- callbacks

\* error_callback only prints; the model records the statement it ran in.
\* GLFW calls it synchronously from inside the call that detects the error.
error_callback(at) == IF errorCallbackSet THEN errCbAt \cup {at} ELSE errCbAt

\* a GLFW call made at statement `at` that may detect an error
GlfwError(at, err) == IF err THEN error_callback(at) ELSE errCbAt

\* key_callback without the action test (closes on escape release and repeat too)
key_callback_any_action(flag, key, action) ==
    IF key = GLFW_KEY_ESCAPE THEN TRUE ELSE flag

\* key_callback: the value of the close flag after the callback.
key_callback(flag, key, action) ==
    IF key = GLFW_KEY_ESCAPE /\ action = GLFW_PRESS THEN TRUE ELSE flag

\* ------------------------------------------------------- main: window setup

Main_glfwSetErrorCallback ==
    /\ pc = "glfwSetErrorCallback"
    /\ errorCallbackSet' = TRUE
    /\ pc' = "glfwInit"
    /\ UNCHANGED << glfwInitialized, window, keyCallbackSet, contextCurrent,
                    glLoaded, errCbAt, reported >>
    /\ UNCHANGED << eventVars, shaderVars, fontVars, frameVars, exitVars >>

\* if (!glfwInit()) perror(...);   execution continues either way
Main_glfwInit ==
    /\ pc = "glfwInit"
    /\ \E ok \in BOOLEAN :
          /\ glfwInitialized' = ok
          /\ errCbAt' = IF ok THEN errCbAt ELSE error_callback("glfwInit")
          /\ reported' = IF ok THEN reported ELSE reported \cup {"glfwInit"}
    /\ pc' = "glfwWindowHint"
    /\ UNCHANGED << errorCallbackSet, window, keyCallbackSet, contextCurrent, glLoaded >>
    /\ UNCHANGED << eventVars, shaderVars, fontVars, frameVars, exitVars >>

\* five glfwWindowHint calls; each reports GLFW_NOT_INITIALIZED when glfwInit failed
Main_glfwWindowHint ==
    /\ pc = "glfwWindowHint"
    /\ errCbAt' = IF glfwInitialized THEN errCbAt ELSE error_callback("glfwWindowHint")
    /\ pc' = "glfwCreateWindow"
    /\ UNCHANGED << glfwVars, reported >>
    /\ UNCHANGED << eventVars, shaderVars, fontVars, frameVars, exitVars >>

\* window = glfwCreateWindow(...); if (!window) perror(...);
Main_glfwCreateWindow ==
    /\ pc = "glfwCreateWindow"
    /\ \E ok \in BOOLEAN :
          /\ ok => glfwInitialized
          /\ window' = IF ok THEN 1 ELSE 0
          /\ errCbAt' = IF ok THEN errCbAt ELSE error_callback("glfwCreateWindow")
          /\ reported' = IF ok THEN reported ELSE reported \cup {"glfwCreateWindow"}
    /\ pc' = "glfwSetKeyCallback"
    /\ UNCHANGED << errorCallbackSet, glfwInitialized, keyCallbackSet,
                    contextCurrent, glLoaded >>
    /\ UNCHANGED << eventVars, shaderVars, fontVars, frameVars, exitVars >>

\* glfwSetKeyCallback(window, key_callback): with a NULL window GLFW either
\* asserts, or (library not initialised) reports the error and returns, or
\* writes through the NULL handle.
Main_glfwSetKeyCallback ==
    /\ pc = "glfwSetKeyCallback"
    /\ \/ /\ window # 0
          /\ keyCallbackSet' = TRUE
          /\ pc' = "glfwMakeContextCurrent"
          /\ UNCHANGED errCbAt
       \/ /\ window = 0
          /\ pc' = "crashed"
          /\ UNCHANGED << keyCallbackSet, errCbAt >>
       \/ /\ window = 0
          /\ ~glfwInitialized
          /\ errCbAt' = error_callback("glfwSetKeyCallback")
          /\ pc' = "glfwMakeContextCurrent"
          /\ UNCHANGED keyCallbackSet
    /\ UNCHANGED << errorCallbackSet, glfwInitialized, window, contextCurrent,
                    glLoaded, reported >>
    /\ UNCHANGED << eventVars, shaderVars, fontVars, frameVars, exitVars >>

Main_glfwMakeContextCurrent ==
    /\ pc = "glfwMakeContextCurrent"
    /\ contextCurrent' = (window # 0)
    /\ errCbAt' = IF glfwInitialized THEN errCbAt
                  ELSE error_callback("glfwMakeContextCurrent")
    /\ pc' = "glewInit"
    /\ UNCHANGED << errorCallbackSet, glfwInitialized, window, keyCallbackSet,
                    glLoaded, reported >>
    /\ UNCHANGED << eventVars, shaderVars, fontVars, frameVars, exitVars >>

\* glewInit whose failure is reported through error_callback instead of fprintf
Main_glewInit_calls_error_callback ==
    /\ pc = "glewInit"
    /\ \E ok \in BOOLEAN, loaded \in BOOLEAN :
          /\ ok => (contextCurrent /\ loaded)
          /\ loaded => contextCurrent
          /\ glLoaded' = loaded
          /\ errCbAt' = IF ok THEN errCbAt ELSE error_callback("glewInit")
    /\ pc' = "glGenVertexArrays"
    /\ UNCHANGED << errorCallbackSet, glfwInitialized, window, keyCallbackSet,
                    contextCurrent, reported >>
    /\ UNCHANGED << eventVars, shaderVars, fontVars, frameVars, exitVars >>

\* err = glewInit(); if (GLEW_OK != err) fprintf(stderr, ...);
\* a failing glewInit may or may not have resolved the GL entry points
Main_glewInit ==
    /\ pc = "glewInit"
    /\ \E ok \in BOOLEAN, loaded \in BOOLEAN :
          /\ ok => (contextCurrent /\ loaded)
          /\ loaded => contextCurrent
          /\ glLoaded' = loaded
          /\ reported' = IF ok THEN reported ELSE reported \cup {"glewInit"}
    /\ pc' = "glGenVertexArrays"
    /\ UNCHANGED << errorCallbackSet, glfwInitialized, window, keyCallbackSet,
                    contextCurrent, errCbAt >>
    /\ UNCHANGED << eventVars, shaderVars, fontVars, frameVars, exitVars >>

\* glEnable, glBlendFunc, glGenVertexArrays, glGenBuffers: the last two are
\* GLEW function pointers, NULL when GLEW did not load them
Main_glGenVertexArrays ==
    /\ pc = "glGenVertexArrays"
    /\ pc' = IF glLoaded THEN "compile_vertex_shader" ELSE "crashed"
    /\ UNCHANGED << glfwVars, errCbAt, reported >>
    /\ UNCHANGED << eventVars, shaderVars, fontVars, frameVars, exitVars >>

\* --------------------------------------------------- main: shader program

VERTEX_SHADER   == 1    \* object names handed out by glCreateShader / glCreateProgram
FRAGMENT_SHADER == 2
PROGRAM         == 3

\* a shader stage that gives up on failure and goes straight to shutdown
ShaderNextAbort(stage, success) ==
    IF ~success THEN "glfwDestroyWindow"
    ELSE CASE stage = "compile_vertex_shader"   -> "compile_fragment_shader"
           [] stage = "compile_fragment_shader" -> "link_program"
           [] stage = "link_program"            -> "get_locations"

\* The statement main executes after the status check of a shader stage.
\* The if(!success) blocks only print, so the outcome does not matter.
ShaderNext(stage, success) ==
    CASE stage = "compile_vertex_shader"   -> "compile_fragment_shader"
      [] stage = "compile_fragment_shader" -> "link_program"
      [] stage = "link_program"            -> "get_locations"

\* glCreateShader, glShaderSource, glCompileShader, glGetShaderiv, report
Main_compile_vertex_shader ==
    /\ pc = "compile_vertex_shader"
    /\ \E success \in BOOLEAN :
          /\ shader' = [shader EXCEPT !.vs = success]
          /\ reported' = IF success THEN reported
                         ELSE reported \cup {"Vertex Shader Error"}
          /\ pc' = ShaderNext("compile_vertex_shader", success)
    /\ UNCHANGED << glfwVars, errCbAt, glprog, locations >>
    /\ UNCHANGED << eventVars, fontVars, frameVars, exitVars >>

Main_compile_fragment_shader ==
    /\ pc = "compile_fragment_shader"
    /\ \E success \in BOOLEAN :
          /\ shader' = [shader EXCEPT !.fs = success]
          /\ reported' = IF success THEN reported
                         ELSE reported \cup {"Fragment Shader Error"}
          /\ pc' = ShaderNext("compile_fragment_shader", success)
    /\ UNCHANGED << glfwVars, errCbAt, glprog, locations >>
    /\ UNCHANGED << eventVars, fontVars, frameVars, exitVars >>

\* glCreateProgram, glAttachShader x2, glLinkProgram, glGetProgramiv, report.
\* Linking can only succeed when both shaders compiled.
Main_link_program ==
    /\ pc = "link_program"
    /\ \E success \in BOOLEAN :
          /\ success => (shader.vs /\ shader.fs)
          /\ shader' = [shader EXCEPT !.link = success]
          /\ glprog' = [glprog EXCEPT !.handle = PROGRAM,
                                      !.attached = {VERTEX_SHADER, FRAGMENT_SHADER},
                                      !.linked = success]
          /\ reported' = IF success THEN reported
                         ELSE reported \cup {"Program Link Error"}
          /\ pc' = ShaderNext("link_program", success)
    /\ UNCHANGED << glfwVars, errCbAt, locations >>
    /\ UNCHANGED << eventVars, fontVars, frameVars, exitVars >>

\* glGetAttribLocation / glGetUniformLocation give -1 on an unlinked program;
\* glBindVertexArray(VAO)
Main_get_locations ==
    /\ pc = "get_locations"
    /\ locations' = IF glprog.linked THEN <<0, 0>> ELSE <<-1, -1>>
    /\ pc' = "FT_Init_FreeType"
    /\ UNCHANGED << glfwVars, errCbAt, reported, shader, glprog >>
    /\ UNCHANGED << eventVars, fontVars, frameVars, exitVars >>

\* ------------------------------------------------------------ get_character

\* get_character with the face released before the glyph slot is used
GcNextEarlyDone(stmt) ==
    CASE stmt = "FT_Init_FreeType"   -> "FT_New_Face"
      [] stmt = "FT_New_Face"        -> "FT_Set_Pixel_Sizes"
      [] stmt = "FT_Set_Pixel_Sizes" -> "FT_Load_Char"
      [] stmt = "FT_Load_Char"       -> "FT_Done_Face"
      [] stmt = "FT_Done_Face"       -> "glGenTextures"
      [] stmt = "glGenTextures"      -> "glTexImage2D"
      [] stmt = "glTexImage2D"       -> "copy_glyph"
      [] stmt = "copy_glyph"         -> "glBindTexture0"
      [] stmt = "glBindTexture0"     -> "FT_Done_FreeType"
      [] stmt = "FT_Done_FreeType"   -> "return_character"

\* the order of get_character's statements
GcNext(stmt) ==
    CASE stmt = "FT_Init_FreeType"   -> "FT_New_Face"
      [] stmt = "FT_New_Face"        -> "FT_Set_Pixel_Sizes"
      [] stmt = "FT_Set_Pixel_Sizes" -> "FT_Load_Char"
      [] stmt = "FT_Load_Char"       -> "glGenTextures"
      [] stmt = "glGenTextures"      -> "glTexImage2D"
      [] stmt = "glTexImage2D"       -> "copy_glyph"
      [] stmt = "copy_glyph"         -> "glBindTexture0"
      [] stmt = "glBindTexture0"     -> "FT_Done_Face"
      [] stmt = "FT_Done_Face"       -> "FT_Done_FreeType"
      [] stmt = "FT_Done_FreeType"   -> "return_character"

\* the statement get_character executes after a font call returned `failed`:
\* the if (...) perror(...) blocks have no return, so it is the next statement
AfterFontStep(stmt, failed) == GcNext(stmt)

\* what a read of face->glyph yields: the slot of a live face, anything else
\* through a pointer that was never initialised or that was freed
SlotReads == IF face = "ok" THEN {slot} ELSE GarbageSlots

\* if (FT_Init_FreeType(&ft)) perror(...);
GC_FT_Init_FreeType ==
    /\ pc = "FT_Init_FreeType"
    /\ \E failed \in BOOLEAN :
          /\ ft' = IF failed THEN "garbage" ELSE "ok"
          /\ ftFailed' = IF failed THEN ftFailed \cup {"FT_Init_FreeType"} ELSE ftFailed
          /\ reported' = IF failed THEN reported \cup {"FT_Init_FreeType"} ELSE reported
          /\ pc' = AfterFontStep("FT_Init_FreeType", failed)
    /\ gcLog' = Append(gcLog, "FT_Init_FreeType")
    /\ UNCHANGED << face, slot, glTex, character >>
    /\ UNCHANGED << glfwVars, errCbAt, eventVars, shaderVars, frameVars, exitVars >>

\* if (FT_New_Face(ft, path, 0, &face)) perror(...);  face stays
\* uninitialised when the call fails
GC_FT_New_Face ==
    /\ pc = "FT_New_Face"
    /\ \/ /\ \E failed \in BOOLEAN :
                /\ (ft # "ok") => failed
                /\ face' = IF failed THEN "garbage" ELSE "ok"
                /\ ftFailed' = IF failed THEN ftFailed \cup {"FT_New_Face"} ELSE ftFailed
                /\ reported' = IF failed THEN reported \cup {"FT_New_Face"} ELSE reported
                /\ pc' = AfterFontStep("FT_New_Face", failed)
          /\ gcLog' = Append(gcLog, "FT_New_Face")
       \/ /\ ft # "ok"
          /\ pc' = "crashed"
          /\ UNCHANGED << face, ftFailed, reported, gcLog >>
    /\ UNCHANGED << ft, slot, glTex, character >>
    /\ UNCHANGED << glfwVars, errCbAt, eventVars, shaderVars, frameVars, exitVars >>

\* FT_Set_Pixel_Sizes(face, 0, 18);
GC_FT_Set_Pixel_Sizes ==
    /\ pc = "FT_Set_Pixel_Sizes"
    /\ \/ /\ pc' = GcNext("FT_Set_Pixel_Sizes")
          /\ gcLog' = Append(gcLog, "FT_Set_Pixel_Sizes")
       \/ /\ face # "ok"
          /\ pc' = "crashed"
          /\ UNCHANGED gcLog
    /\ UNCHANGED << ft, face, slot, ftFailed, glTex, character >>
    /\ UNCHANGED << glfwVars, errCbAt, reported, eventVars, shaderVars, frameVars, exitVars >>

\* glPixelStorei(GL_UNPACK_ALIGNMENT, 1);
\* if (FT_Load_Char(face, c, FT_LOAD_RENDER)) perror(...);
GC_FT_Load_Char ==
    /\ pc = "FT_Load_Char"
    /\ \/ /\ \E failed \in BOOLEAN :
                /\ (face # "ok") => failed
                /\ slot' \in (IF failed THEN {ClearedSlot} ELSE GlyphSlots)
                /\ ftFailed' = IF failed THEN ftFailed \cup {"FT_Load_Char"} ELSE ftFailed
                /\ reported' = IF failed THEN reported \cup {"FT_Load_Char"} ELSE reported
                /\ pc' = AfterFontStep("FT_Load_Char", failed)
          /\ gcLog' = Append(gcLog, "FT_Load_Char")
       \/ /\ face # "ok"
          /\ pc' = "crashed"
          /\ UNCHANGED << slot, ftFailed, reported, gcLog >>
    /\ UNCHANGED << ft, face, glTex, character >>
    /\ UNCHANGED << glfwVars, errCbAt, eventVars, shaderVars, frameVars, exitVars >>

\* glGenTextures(1, &texture); glBindTexture(GL_TEXTURE_2D, texture);
GC_glGenTextures ==
    /\ pc = "glGenTextures"
    /\ glTex' = [glTex EXCEPT !.gen = @ \cup {TEXTURE}, !.local = TEXTURE,
                              !.bound = TEXTURE]
    /\ gcLog' = Append(gcLog, "glGenTextures")
    /\ pc' = GcNext("glGenTextures")
    /\ UNCHANGED << ft, face, slot, ftFailed, character >>
    /\ UNCHANGED << glfwVars, errCbAt, reported, eventVars, shaderVars, frameVars, exitVars >>

\* glTexImage2D(..., face->glyph->bitmap.width, face->glyph->bitmap.rows, ...,
\* face->glyph->bitmap.buffer); glTexParameteri x4
GC_glTexImage2D ==
    /\ pc = "glTexImage2D"
    /\ \/ /\ \E g \in SlotReads :
                glTex' = [glTex EXCEPT !.image[glTex.bound] = <<g[1], g[2]>>]
          /\ gcLog' = Append(gcLog, "glTexImage2D")
          /\ pc' = GcNext("glTexImage2D")
       \/ /\ face # "ok"
          /\ pc' = "crashed"
          /\ UNCHANGED << glTex, gcLog >>
    /\ UNCHANGED << ft, face, slot, ftFailed, character >>
    /\ UNCHANGED << glfwVars, errCbAt, reported, eventVars, shaderVars, frameVars, exitVars >>

\* character = calloc(...); character->texture = texture; width, height,
\* bearing_left, bearing_top, advance copied out of face->glyph
GC_copy_glyph ==
    /\ pc = "copy_glyph"
    /\ \/ /\ \E g \in SlotReads :
                character' = << [texture |-> glTex.local, width |-> g[1],
                                 height |-> g[2], bearing_left |-> g[3],
                                 bearing_top |-> g[4], advance |-> g[5]] >>
          /\ gcLog' = Append(gcLog, "copy_glyph")
          /\ pc' = GcNext("copy_glyph")
       \/ /\ face # "ok"
          /\ pc' = "crashed"
          /\ UNCHANGED << character, gcLog >>
    /\ UNCHANGED << ft, face, slot, ftFailed, glTex >>
    /\ UNCHANGED << glfwVars, errCbAt, reported, eventVars, shaderVars, frameVars, exitVars >>

\* glBindTexture(GL_TEXTURE_2D, 0);
GC_glBindTexture0 ==
    /\ pc = "glBindTexture0"
    /\ glTex' = [glTex EXCEPT !.bound = 0]
    /\ gcLog' = Append(gcLog, "glBindTexture0")
    /\ pc' = GcNext("glBindTexture0")
    /\ UNCHANGED << ft, face, slot, ftFailed, character >>
    /\ UNCHANGED << glfwVars, errCbAt, reported, eventVars, shaderVars, frameVars, exitVars >>

\* FT_Done_Face(face);
GC_FT_Done_Face ==
    /\ pc = "FT_Done_Face"
    /\ \/ /\ face' = IF face = "ok" THEN "done" ELSE face
          /\ gcLog' = Append(gcLog, "FT_Done_Face")
          /\ pc' = GcNext("FT_Done_Face")
       \/ /\ face # "ok"
          /\ pc' = "crashed"
          /\ UNCHANGED << face, gcLog >>
    /\ UNCHANGED << ft, slot, ftFailed, glTex, character >>
    /\ UNCHANGED << glfwVars, errCbAt, reported, eventVars, shaderVars, frameVars, exitVars >>

\* FT_Done_FreeType(ft);
GC_FT_Done_FreeType ==
    /\ pc = "FT_Done_FreeType"
    /\ \/ /\ ft' = IF ft = "ok" THEN "done" ELSE ft
          /\ gcLog' = Append(gcLog, "FT_Done_FreeType")
          /\ pc' = GcNext("FT_Done_FreeType")
       \/ /\ ft # "ok"
          /\ pc' = "crashed"
          /\ UNCHANGED << ft, gcLog >>
    /\ UNCHANGED << face, slot, ftFailed, glTex, character >>
    /\ UNCHANGED << glfwVars, errCbAt, reported, eventVars, shaderVars, frameVars, exitVars >>

\* return character;   back in main: character_T* character = get_character('H')
GC_return_character ==
    /\ pc = "return_character"
    /\ gcLog' = Append(gcLog, "return")
    /\ pc' = "build_quad"
    /\ UNCHANGED << ft, face, slot, ftFailed, glTex, character >>
    /\ UNCHANGED << glfwVars, errCbAt, reported, eventVars, shaderVars, frameVars, exitVars >>

\* ------------------------------------------------------------ main: the quad

\* Coordinates are fixed-point with FIX units per 1.0, so that px * 0.1f and
\* its half are exact.
FIX == 2 * scale_den

\* px * scale
Scaled(px) == (px * FIX) \div scale_den

\* GLfloat vertices[6][4]: <<x, y, u, v>> per vertex
quad_vertices(xpos, ypos, w, h) ==
    << <<xpos,     ypos + h, 0, 0>>,
       <<xpos,     ypos,     0, 1>>,
       <<xpos + w, ypos,     1, 1>>,
       <<xpos,     ypos + h, 0, 0>>,
       <<xpos + w, ypos,     1, 1>>,
       <<xpos + w, ypos + h, 1, 0>> >>

\* build_quad with the halving of xpos and ypos forgotten
build_quad_not_centred(c) ==
    LET xpos == 0 - Scaled(c.width)
        ypos == 0 - Scaled(c.height)
        w    == Scaled(c.width)
        h    == Scaled(c.height)
    IN  [texture |-> c.texture, xpos |-> xpos, ypos |-> ypos, w |-> w, h |-> h,
         vertices |-> quad_vertices(xpos, ypos, w, h)]

\* texture = character->texture; xpos, ypos, w, h, vertices
build_quad(c) ==
    LET xpos == (0 - Scaled(c.width)) \div 2
        ypos == (0 - Scaled(c.height)) \div 2
        w    == Scaled(c.width)
        h    == Scaled(c.height)
    IN  [texture |-> c.texture, xpos |-> xpos, ypos |-> ypos, w |-> w, h |-> h,
         vertices |-> quad_vertices(xpos, ypos, w, h)]

Main_build_quad ==
    /\ pc = "build_quad"
    /\ quad' = << build_quad(character[1]) >>
    /\ pc' = "loop_test"
    /\ UNCHANGED << frame, gl_clearColor, draws, swaps, drawsAfterClose >>
    /\ UNCHANGED << glfwVars, errCbAt, reported, eventVars, shaderVars, fontVars, exitVars >>

\* ------------------------------------------------------ main: the frame loop

\* a loop that never looks at the close flag
LoopContinuesAlways(flag) == TRUE

\* while (!glfwWindowShouldClose(window))
LoopContinues(flag) == ~flag

Main_loop_test ==
    /\ pc = "loop_test"
    /\ IF LoopContinues(closeFlag)
         THEN draws < MaxFrames /\ pc' = "frame_begin"
         ELSE pc' = "glfwDestroyWindow"
    /\ UNCHANGED << glfwVars, errCbAt, reported >>
    /\ UNCHANGED << eventVars, shaderVars, fontVars, frameVars, exitVars >>

\* glfwGetFramebufferSize; glViewport(0, 0, width, height);
\* glClear(GL_COLOR_BUFFER_BIT) : clears with the colour current at this point
Main_frame_begin ==
    /\ pc = "frame_begin"
    /\ \E fb \in FramebufferSizes, err \in BOOLEAN :
          /\ err => fb = <<0, 0>>
          /\ errCbAt' = GlfwError("glfwGetFramebufferSize", err)
          /\ frame' = [frame EXCEPT !.fb = fb,
                                    !.viewport = <<0, 0, fb[1], fb[2]>>,
                                    !.cleared = gl_clearColor]
    /\ pc' = "glClearColor"
    /\ UNCHANGED << quad, gl_clearColor, draws, swaps, drawsAfterClose >>
    /\ UNCHANGED << glfwVars, reported, eventVars, shaderVars, fontVars, exitVars >>

\* glClearColor(0.2f, 0.4f, 0.2f, 1.0f);
Main_glClearColor ==
    /\ pc = "glClearColor"
    /\ gl_clearColor' = BACKGROUND_COLOR
    /\ pc' = "frame_mvp"
    /\ UNCHANGED << quad, frame, draws, swaps, drawsAfterClose >>
    /\ UNCHANGED << glfwVars, errCbAt, reported, eventVars, shaderVars, fontVars, exitVars >>

\* glm_ortho_default(width / (float) height, p): half extents of the view
\* volume as <<x numerator, x denominator, y numerator, y denominator>>;
\* 0 / 0 is NaN, which fails aspect >= 1 and stays NaN when inverted
ortho_default(width, height) ==
    IF height = 0 /\ width = 0 THEN <<1, 1, 0, 0>>
    ELSE IF width >= height THEN <<width, height, 1, 1>> ELSE <<1, 1, height, width>>

\* m = identity; glm_translate(m, 0); p = ortho; mvp = p * m;
\* glUseProgram(program); glUniformMatrix4fv(mvp_location, ...)
\* glUseProgram leaves the current program alone when `program` is not linked
Main_frame_mvp ==
    /\ pc = "frame_mvp"
    /\ frame' = [frame EXCEPT !.mvp = ortho_default(frame.fb[1], frame.fb[2]),
                              !.program = glprog.handle]
    /\ glprog' = [glprog EXCEPT !.inUse = IF glprog.linked THEN glprog.handle ELSE @]
    /\ pc' = "frame_draw"
    /\ UNCHANGED << quad, gl_clearColor, draws, swaps, drawsAfterClose >>
    /\ UNCHANGED << glfwVars, errCbAt, reported, eventVars, shader, locations,
                    fontVars, exitVars >>

\* drawing with whatever texture is currently bound instead of the glyph's
DrawTextureStale == glTex.bound

\* the texture name main binds for drawing: unsigned int texture = character->texture
DrawTexture == quad[1].texture

\* glActiveTexture, glBindVertexArray, glBindTexture(GL_TEXTURE_2D, texture),
\* glBindBuffer, glBufferData(vertices), attribute setup, glDrawArrays(.., 6)
Main_frame_draw ==
    /\ pc = "frame_draw"
    /\ glTex' = [glTex EXCEPT !.bound = DrawTexture]
    /\ frame' = [frame EXCEPT !.texture = DrawTexture,
                              !.buffer = quad[1].vertices,
                              !.count = 6]
    /\ draws' = draws + 1
    /\ drawsAfterClose' = IF closeFlag THEN drawsAfterClose + 1 ELSE drawsAfterClose
    /\ pc' = "glfwSwapBuffers"
    /\ UNCHANGED << quad, gl_clearColor, swaps >>
    /\ UNCHANGED << ft, face, slot, ftFailed, gcLog, character >>
    /\ UNCHANGED << glfwVars, errCbAt, reported, eventVars, shaderVars, exitVars >>

Main_glfwSwapBuffers ==
    /\ pc = "glfwSwapBuffers"
    /\ swaps' = swaps + 1
    /\ drawsAfterClose' = IF closeFlag THEN drawsAfterClose + 1 ELSE drawsAfterClose
    /\ \E err \in BOOLEAN : errCbAt' = GlfwError("glfwSwapBuffers", err)
    /\ pc' = "glfwPollEvents"
    /\ UNCHANGED << quad, frame, gl_clearColor, draws >>
    /\ UNCHANGED << glfwVars, reported, eventVars, shaderVars, fontVars, exitVars >>

\* glfwPollEvents drains the event queue; each queued event is delivered by
\* calling the matching callback before glfwPollEvents returns.
Poll_key ==
    /\ pc = "glfwPollEvents"
    /\ polled < MaxEvents
    /\ keyCallbackSet
    /\ \E key \in Keys, action \in Actions :
          /\ closeFlag' = key_callback(closeFlag, key, action)
          /\ lastEvent' = [kind |-> "key", key |-> key, action |-> action]
    /\ keyCbAt' = keyCbAt \cup {pc}
    /\ polled' = polled + 1
    /\ UNCHANGED << pc, glfwVars, errCbAt, reported >>
    /\ UNCHANGED << shaderVars, fontVars, frameVars, exitVars >>

\* the user closes the window: GLFW sets the should-close flag itself
Poll_close ==
    /\ pc = "glfwPollEvents"
    /\ polled < MaxEvents
    /\ closeFlag' = TRUE
    /\ lastEvent' = [kind |-> "close", key |-> 0, action |-> 0]
    /\ polled' = polled + 1
    /\ UNCHANGED << pc, glfwVars, errCbAt, keyCbAt, reported >>
    /\ UNCHANGED << shaderVars, fontVars, frameVars, exitVars >>

\* a platform error while processing events
Poll_error ==
    /\ pc = "glfwPollEvents"
    /\ polled < MaxEvents
    /\ errCbAt' = error_callback(pc)
    /\ lastEvent' = [kind |-> "error", key |-> 0, action |-> 0]
    /\ polled' = polled + 1
    /\ UNCHANGED << pc, glfwVars, closeFlag, keyCbAt, reported >>
    /\ UNCHANGED << shaderVars, fontVars, frameVars, exitVars >>

Poll_return ==
    /\ pc = "glfwPollEvents"
    /\ polled' = 0
    /\ lastEvent' = NoEvent
    /\ pc' = "loop_test"
    /\ UNCHANGED << glfwVars, errCbAt, closeFlag, keyCbAt, reported >>
    /\ UNCHANGED << shaderVars, fontVars, frameVars, exitVars >>

\* --------------------------------------------------------- main: shutdown

\* shutdown that returns without glfwTerminate
ExitNextNoTerminate(stmt) ==
    CASE stmt = "glfwDestroyWindow" -> "return"
      [] stmt = "glfwTerminate"     -> "return"

\* the statements after the loop, in order
ExitNext(stmt) ==
    CASE stmt = "glfwDestroyWindow" -> "glfwTerminate"
      [] stmt = "glfwTerminate"     -> "return"

\* return 0;
main_status == 0

Main_glfwDestroyWindow ==
    /\ pc = "glfwDestroyWindow"
    /\ shutdownLog' = Append(shutdownLog, "glfwDestroyWindow")
    /\ window' = 0
    /\ contextCurrent' = FALSE
    /\ \E err \in BOOLEAN : errCbAt' = GlfwError("glfwDestroyWindow", err)
    /\ pc' = ExitNext("glfwDestroyWindow")
    /\ UNCHANGED << errorCallbackSet, glfwInitialized, keyCallbackSet, glLoaded,
                    reported, exitStatus >>
    /\ UNCHANGED << eventVars, shaderVars, fontVars, frameVars >>

Main_glfwTerminate ==
    /\ pc = "glfwTerminate"
    /\ shutdownLog' = Append(shutdownLog, "glfwTerminate")
    /\ glfwInitialized' = FALSE
    /\ \E err \in BOOLEAN : errCbAt' = GlfwError("glfwTerminate", err)
    /\ pc' = ExitNext("glfwTerminate")
    /\ UNCHANGED << errorCallbackSet, window, keyCallbackSet, contextCurrent,
                    glLoaded, reported, exitStatus >>
    /\ UNCHANGED << eventVars, shaderVars, fontVars, frameVars >>

Main_return ==
    /\ pc = "return"
    /\ exitStatus' = main_status
    /\ pc' = "done"
    /\ UNCHANGED << glfwVars, errCbAt, reported, shutdownLog >>
    /\ UNCHANGED << eventVars, shaderVars, fontVars, frameVars >>

Next ==
    \/ Main_glfwSetErrorCallback
    \/ Main_glfwInit
    \/ Main_glfwWindowHint
    \/ Main_glfwCreateWindow
    \/ Main_glfwSetKeyCallback
    \/ Main_glfwMakeContextCurrent
    \/ Main_glewInit
    \/ Main_glGenVertexArrays
    \/ Main_compile_vertex_shader
    \/ Main_compile_fragment_shader
    \/ Main_link_program
    \/ Main_get_locations
    \/ GC_FT_Init_FreeType
    \/ GC_FT_New_Face
    \/ GC_FT_Set_Pixel_Sizes
    \/ GC_FT_Load_Char
    \/ GC_glGenTextures
    \/ GC_glTexImage2D
    \/ GC_copy_glyph
    \/ GC_glBindTexture0
    \/ GC_FT_Done_Face
    \/ GC_FT_Done_FreeType
    \/ GC_return_character
    \/ Main_build_quad
    \/ Main_loop_test
    \/ Main_frame_begin
    \/ Main_glClearColor
    \/ Main_frame_mvp
    \/ Main_frame_draw
    \/ Main_glfwSwapBuffers
    \/ Poll_key
    \/ Poll_close
    \/ Poll_error
    \/ Poll_return
    \/ Main_glfwDestroyWindow
    \/ Main_glfwTerminate
    \/ Main_return

Spec == Init /\ [][Next]_vars

\* ====================================================================
\* Properties
\* ====================================================================

Range(q) == { q[i] : i \in 1..Len(q) }

\* position of the first occurrence of op in a log, 0 when absent
Pos(log, op) ==
    IF op \in Range(log) THEN CHOOSE i \in 1..Len(log) :
                                  log[i] = op /\ \A j \in 1..(i - 1) : log[j] # op
    ELSE 0

\* op a, when present in the log, comes after an earlier op b
After(log, a, b) == Pos(log, a) # 0 => (Pos(log, b) # 0 /\ Pos(log, b) < Pos(log, a))

ClosingPcs == {"glfwDestroyWindow", "glfwTerminate", "return", "done"}
RunningPcs == {"loop_test", "frame_begin", "glClearColor", "frame_mvp", "frame_draw",
               "glfwSwapBuffers", "glfwPollEvents"}

\* C1: the frame loop leaves Running for Closing only when the close flag is
\* set; with the flag set no glDrawArrays / glfwSwapBuffers call is made, and
\* Closing never goes back to Running.
C1_NoFrameAfterClose ==
    [][ /\ (pc \in RunningPcs /\ pc' \in ClosingPcs) => (pc = "loop_test" /\ closeFlag)
        /\ closeFlag => (draws' = draws /\ swaps' = swaps)
        /\ drawsAfterClose' = 0
        /\ (pc \in ClosingPcs) => (pc' \in ClosingPcs) ]_vars

C1_Witness == pc = "done" /\ closeFlag /\ draws >= 1 /\ swaps = draws

\* C2 (as claimed): once FT_Init_FreeType, FT_New_Face or FT_Load_Char has
\* failed, get_character reads no glyph data, creates and uploads no texture
\* and returns no record.
C2_FontFailureIsFatal ==
    ftFailed # {} =>
        /\ glTex.gen = {}
        /\ "glTexImage2D" \notin Range(gcLog)
        /\ "copy_glyph" \notin Range(gcLog)
        /\ character = <<>>
        /\ "return" \notin Range(gcLog)

\* C3: a failed vertex compile, fragment compile or link is reported and
\* nothing else: main goes on to attach and link, to query the locations, to
\* call get_character, and the frame loop uses the same program handle.
C3_ShaderFailuresOnlyReported ==
    [][ /\ pc = "compile_vertex_shader" =>
              /\ pc' = "compile_fragment_shader"
              /\ ~shader'.vs <=> "Vertex Shader Error" \in reported'
        /\ pc = "compile_fragment_shader" =>
              /\ pc' = "link_program"
              /\ ~shader'.fs <=> "Fragment Shader Error" \in reported'
        /\ pc = "link_program" =>
              /\ pc' = "get_locations"
              /\ glprog'.handle = PROGRAM
              /\ glprog'.attached = {VERTEX_SHADER, FRAGMENT_SHADER}
              /\ ~shader'.link <=> "Program Link Error" \in reported'
        /\ pc = "get_locations" => (pc' = "FT_Init_FreeType" /\ Len(locations') = 2)
        /\ pc = "frame_mvp" => (frame'.program = PROGRAM /\ pc' = "frame_draw")
        /\ pc' \in RunningPcs => (glprog'.handle = PROGRAM /\ "return" \in Range(gcLog')) ]_vars

C3_Witness ==
    /\ draws >= 1
    /\ ~shader.vs /\ ~shader.fs /\ ~shader.link
    /\ frame.program = PROGRAM

\* C4: when main has returned, glfwDestroyWindow and glfwTerminate have each
\* been called once, in that order, and the status is 0, whatever failed
\* during initialisation; main returns no other status.
C4_ShutdownAndExitStatus ==
    /\ exitStatus \in {-1, 0}
    /\ pc = "done" => (exitStatus = 0
                       /\ shutdownLog = <<"glfwDestroyWindow", "glfwTerminate">>)
    /\ pc = "return" => shutdownLog = <<"glfwDestroyWindow", "glfwTerminate">>
    /\ pc = "glfwTerminate" => shutdownLog = <<"glfwDestroyWindow">>
    /\ pc \notin ClosingPcs => shutdownLog = <<>>

C4_Witness ==
    /\ pc = "done"
    /\ "glewInit" \in reported
    /\ ~shader.link
    /\ ftFailed # {}

\* C5 (as claimed): error_callback and key_callback run only inside
\* glfwPollEvents, and the close flag changes only there.
C5_CallbacksOnlyInPoll ==
    [][ /\ errCbAt' \subseteq {"glfwPollEvents"}
        /\ keyCbAt' \subseteq {"glfwPollEvents"}
        /\ closeFlag' # closeFlag => pc = "glfwPollEvents" ]_vars

GlfwCalls == {"glfwInit", "glfwWindowHint", "glfwCreateWindow", "glfwSetKeyCallback",
              "glfwMakeContextCurrent", "glfwGetFramebufferSize", "glfwSwapBuffers",
              "glfwPollEvents", "glfwDestroyWindow", "glfwTerminate"}

\* C5 (amended): key_callback runs only inside glfwPollEvents and the close
\* flag changes only there; error_callback runs inside whichever GLFW call
\* detects an error, which need not be glfwPollEvents.
C5_KeyCallbackOnlyInPoll ==
    [][ /\ keyCbAt' \subseteq {"glfwPollEvents"}
        /\ closeFlag' # closeFlag => (pc = "glfwPollEvents" /\ pc' = pc)
        /\ errCbAt' \subseteq GlfwCalls ]_vars

C5_Witness ==
    /\ "glfwInit" \in errCbAt
    /\ pc = "glfwWindowHint"

\* C6: the quad has w = W*0.1, h = H*0.1, xpos = -w/2, ypos = -h/2; its six
\* vertices lie on the four corners, it is centred on the origin, v = 0 on
\* the top edge and v = 1 on the bottom edge; a 12x18 glyph gives w = 1.2,
\* h = 1.8 and corners (-0.6,-0.9) .. (0.6,0.9).  (x, y in 1/FIX units)
C6_QuadGeometry ==
    quad # <<>> =>
        LET q == quad[1]
            c == character[1]
            corners == { <<q.xpos, q.ypos>>, <<q.xpos + q.w, q.ypos>>,
                         <<q.xpos, q.ypos + q.h>>, <<q.xpos + q.w, q.ypos + q.h>> }
        IN  /\ q.w * scale_den = c.width * FIX
            /\ q.h * scale_den = c.height * FIX
            /\ 2 * q.xpos = 0 - q.w
            /\ 2 * q.ypos = 0 - q.h
            /\ Len(q.vertices) = 6
            /\ \A i \in 1..6 : <<q.vertices[i][1], q.vertices[i][2]>> \in corners
            /\ q.xpos + (q.xpos + q.w) = 0
            /\ q.ypos + (q.ypos + q.h) = 0
            /\ q.h > 0 => \A i \in 1..6 :
                   /\ q.vertices[i][2] = q.ypos + q.h => q.vertices[i][4] = 0
                   /\ q.vertices[i][2] = q.ypos       => q.vertices[i][4] = 1
            /\ (c.width = 12 /\ c.height = 18) =>
                   /\ 10 * q.w = 12 * FIX
                   /\ 10 * q.h = 18 * FIX
                   /\ 10 * q.xpos = (0 - 6) * FIX
                   /\ 10 * q.ypos = (0 - 9) * FIX
                   /\ 10 * (q.xpos + q.w) = 6 * FIX
                   /\ 10 * (q.ypos + q.h) = 9 * FIX

C6_Witness ==
    /\ quad # <<>>
    /\ character[1].width = 12
    /\ character[1].height = 18
    /\ draws >= 1

\* C7: the Glyph record is created once, after window setup and the shader
\* link and before the first frame, and never changes; every frame binds the
\* record's texture and uploads the six vertices computed before the loop.
C7_GlyphCreatedOnceNeverMutated ==
    [][ /\ character # <<>> => character' = character
        /\ (character = <<>> /\ character' # <<>>) =>
               /\ pc = "copy_glyph"
               /\ keyCallbackSet /\ contextCurrent
               /\ glprog.handle = PROGRAM
               /\ draws = 0 /\ frame.cleared = <<>>
        /\ quad # <<>> => quad' = quad
        /\ draws' # draws =>
               /\ character' # <<>> /\ quad' # <<>>
               /\ quad'[1].texture = character'[1].texture
               /\ frame'.texture = character'[1].texture
               /\ glTex'.bound = character'[1].texture
               /\ frame'.buffer = quad'[1].vertices
               /\ Len(frame'.buffer) = 6 ]_vars

C7_Witness == draws >= 2 /\ frame.texture = TEXTURE

\* C8 (as claimed): every glClear, the first included, clears to the
\* background colour (0.2, 0.4, 0.2, 1.0).
C8_ClearUsesBackground ==
    frame.cleared # <<>> => frame.cleared = BACKGROUND_COLOR

\* C9: key_callback sets the close flag exactly for escape + press, leaves
\* it unchanged for every other event and never clears it.
C9_EscapePressCloses ==
    [][ (lastEvent'.kind = "key" /\ polled' = polled + 1) =>
            /\ keyCbAt' = keyCbAt \cup {"glfwPollEvents"}
            /\ IF lastEvent'.key = GLFW_KEY_ESCAPE /\ lastEvent'.action = GLFW_PRESS
                 THEN closeFlag'
                 ELSE closeFlag' = closeFlag ]_vars

C9_Witness ==
    /\ lastEvent.kind = "key"
    /\ lastEvent.key = GLFW_KEY_ESCAPE
    /\ lastEvent.action = GLFW_PRESS
    /\ closeFlag

\* C10: get_character uploads the texture, then copies the metrics out of the
\* glyph slot, then FT_Done_Face, then FT_Done_FreeType; nothing reads the
\* face after FT_Done_Face; the texture is not deleted; the record carries
\* the uploaded texture's name and GL_TEXTURE_2D is bound to 0 on return.
FaceReaders == {"FT_Set_Pixel_Sizes", "FT_Load_Char", "glTexImage2D", "copy_glyph"}

C10_GetCharacterOrder ==
    /\ After(gcLog, "copy_glyph", "glTexImage2D")
    /\ After(gcLog, "FT_Done_Face", "copy_glyph")
    /\ After(gcLog, "FT_Done_FreeType", "FT_Done_Face")
    /\ After(gcLog, "return", "FT_Done_FreeType")
    /\ \A i \in 1..Len(gcLog), j \in 1..Len(gcLog) :
           (gcLog[i] = "FT_Done_Face" /\ i < j) => gcLog[j] \notin FaceReaders
    /\ ~(face = "done" /\ pc \in FaceReaders)
    /\ glTex.deleted = {}
    /\ "return" \in Range(gcLog) =>
           /\ character # <<>>
           /\ character[1].texture = TEXTURE
           /\ glTex.image[character[1].texture] # <<>>
    /\ pc = "build_quad" => glTex.bound = 0

C10_Witness ==
    /\ pc = "build_quad"
    /\ ftFailed = {}
    /\ face = "done" /\ ft = "done"
    /\ glTex.image[TEXTURE] = <<character[1].width, character[1].height>>
====
